---- MODULE Spec2Model ----
(***************************************************************************)
(* State-machine model of create_venv.py: the command-line front end, the  *)
(* platform dispatcher, environment creation, requirement synchronisation, *)
(* manifest compilation, ensure, the validity check and robust removal.    *)
(*                                                                         *)
(* Text is modelled as sequences of one-character strings so that          *)
(* startswith, strip, partition, split, shlex.split and normpath are       *)
(* computed rather than assumed.  Long names are abbreviated:              *)
(*   "linux" -> l x, "win32" -> w 3, VIRTUAL_ENV -> V, PIP_SRC -> S,       *)
(*   project_root -> /p, venv_path -> /p/v.                                *)
(***************************************************************************)
EXTENDS Integers, Sequences, FiniteSets, TLC

\* ---------------------------------------------------------------- bounds
MaxInPaths == 2      \* number of *.in files glob may find
MaxEntries == 2      \* entries of a dispatch mapping (DispatchSpec)
MaxNameLen == 2      \* length of prefixes and platform strings (DispatchSpec)

\* ------------------------------------------------------- text primitives
Whitespace == {" ", "\n"}

RECURSIVE lstrip(_)
lstrip(s) == IF s # <<>> /\ Head(s) \in Whitespace THEN lstrip(Tail(s)) ELSE s

RECURSIVE rstrip(_)
rstrip(s) ==
    IF s # <<>> /\ s[Len(s)] \in Whitespace
    THEN rstrip(SubSeq(s, 1, Len(s) - 1))
    ELSE s

\* str.strip()
strip(s) == rstrip(lstrip(s))

\* str.startswith(prefix)
startswith(s, prefix) ==
    /\ Len(prefix) <= Len(s)
    /\ SubSeq(s, 1, Len(prefix)) = prefix

\* index of the first occurrence of character c in s, 0 when there is none
find(s, c) ==
    IF \E i \in 1..Len(s) : s[i] = c
    THEN CHOOSE i \in 1..Len(s) : s[i] = c /\ \A j \in 1..(i - 1) : s[j] # c
    ELSE 0

\* str.partition(sep) for a one-character separator: <<before, sep, after>>
partition(s, sep) ==
    LET i == find(s, sep) IN
    IF i = 0
    THEN << s, <<>>, <<>> >>
    ELSE << SubSeq(s, 1, i - 1), <<sep>>, SubSeq(s, i + 1, Len(s)) >>

\* str.split(sep, 1): a sequence of one or two parts
split1(s, sep) ==
    LET i == find(s, sep) IN
    IF i = 0
    THEN << s >>
    ELSE << SubSeq(s, 1, i - 1), SubSeq(s, i + 1, Len(s)) >>

\* A dict is a set of <<key, value>> pairs with distinct keys.
\* dict.update(): the right operand wins
update(a, b) == {p \in a : \A q \in b : q[1] # p[1]} \cup b

\* d[k] = v
setitem(dict, k, v) == {p \in dict : p[1] # k} \cup {<<k, v>>}

\* d.get(k): the set holding the value, empty when the key is missing (None)
get(dict, k) == {p[2] : p \in {q \in dict : q[1] = k}}

\* shlex.split(s) in POSIX mode restricted to double quotes and whitespace.
\* The result is <<"ok", tokens>> or <<"ValueError", <<>>>> (no closing quote).
RECURSIVE shlex_lex(_, _, _, _, _)
shlex_lex(s, inq, cur, has, toks) ==
    IF s = <<>>
    THEN IF inq
         THEN << "ValueError", <<>> >>
         ELSE << "ok", IF has THEN Append(toks, cur) ELSE toks >>
    ELSE LET c == Head(s) IN
         IF c = "\""
         THEN shlex_lex(Tail(s), ~inq, cur, TRUE, toks)
         ELSE IF c \in Whitespace /\ ~inq
              THEN shlex_lex(Tail(s), inq, <<>>, FALSE,
                             IF has THEN Append(toks, cur) ELSE toks)
              ELSE shlex_lex(Tail(s), inq, Append(cur, c), TRUE, toks)

shlex_split(s) == shlex_lex(s, FALSE, <<>>, FALSE, <<>>)

\* ------------------------------------------------------------------ paths
\* components of a path between "/" separators (empty components included)
RECURSIVE components(_, _, _)
components(s, cur, acc) ==
    IF s = <<>>
    THEN Append(acc, cur)
    ELSE IF Head(s) = "/"
         THEN components(Tail(s), <<>>, Append(acc, cur))
         ELSE components(Tail(s), Append(cur, Head(s)), acc)

\* posixpath.normpath on an absolute path: drops empty and "." components,
\* resolves "..", never climbs above the root
RECURSIVE norm_comps(_, _)
norm_comps(comps, acc) ==
    IF comps = <<>>
    THEN acc
    ELSE LET c == Head(comps) IN
         IF c = <<>> \/ c = <<".">>
         THEN norm_comps(Tail(comps), acc)
         ELSE IF c = <<".", ".">>
              THEN norm_comps(Tail(comps),
                              IF acc = <<>> THEN acc
                              ELSE SubSeq(acc, 1, Len(acc) - 1))
              ELSE norm_comps(Tail(comps), Append(acc, c))

RECURSIVE join_comps(_)
join_comps(comps) ==
    IF comps = <<>> THEN <<>>
    ELSE <<"/">> \o Head(comps) \o join_comps(Tail(comps))

normpath(path) ==
    LET n == norm_comps(components(path, <<>>, <<>>), <<>>) IN
    IF n = <<>> THEN <<"/">> ELSE join_comps(n)

\* os.path.abspath's join with the working directory
abspath(path, cwd) ==
    IF startswith(path, <<"/">>) THEN path ELSE cwd \o <<"/">> \o path

\* clean_path(path)
clean_path(path, cwd) == normpath(abspath(path, cwd))

\* process-wide path constants
project_root == <<"/", "p">>
venv_path == project_root \o <<"/", "v">>

\* ------------------------------------------------------------ file formats
\* A file is [exists, lines]; every line is a sequence of characters.
NoFile == [exists |-> FALSE, lines |-> <<>>]
File(ls) == [exists |-> TRUE, lines |-> ls]

\* read_dot_env(): the loop over the lines of .env
RECURSIVE read_dot_env_lines(_, _)
read_dot_env_lines(lines, env0) ==
    IF lines = <<>>
    THEN env0
    ELSE LET line == strip(Head(lines)) IN
         IF startswith(line, <<"#">>)
         THEN read_dot_env_lines(Tail(lines), env0)
         ELSE LET kv == partition(line, "=") IN
              read_dot_env_lines(Tail(lines), setitem(env0, kv[1], kv[3]))

\* read_dot_env(): <<"ok", env>>, or <<"IOError", {}>> when open() fails
read_dot_env(file) ==
    IF file.exists
    THEN << "ok", read_dot_env_lines(file.lines, {}) >>
    ELSE << "IOError", {} >>

\* os.environ as set at import time (CUSTOM_COMPILE_COMMAND,
\* PIP_DISABLE_PIP_VERSION_CHECK, PIP_NO_WARN_SCRIPT_LOCATION)
PIP_SRC == <<"S">>
os_environ_base ==
    { << <<"C">>, <<"c">> >>, << <<"D">>, <<"1">> >>, << <<"W">>, <<"0">> >> }
Environs == { os_environ_base, setitem(os_environ_base, PIP_SRC, <<"/", "s">>) }

\* the .env files considered
DotEnvFiles ==
    { NoFile,
      File(<<>>),
      File(<< <<"#", " ", "c", "\n">>, <<"F", "=", "b", "\n">>,
              <<"B", "=", "1", "\n">> >>),
      File(<< <<" ", "#", "x", "\n">>, <<" ", "S", "=", "/", "s", " ", "\n">>,
              <<"D", "=", "2", "\n">> >>) }

\* the activation descriptors considered (venv/Scripts/activate)
expected_name == <<"V">>
ActivateFiles ==
    { \* VIRTUAL_ENV="/p/v" after a line without "=" and before PATH="x"
      File(<< <<"u", " ", "V", "\n">>,
              <<"V", "=", "\"", "/", "p", "/", "v", "\"", "\n">>,
              <<"P", "=", "\"", "x", "\"", "\n">> >>),
      \* VIRTUAL_ENV="/p/o": created somewhere else
      File(<< <<"V", "=", "\"", "/", "p", "/", "o", "\"", "\n">> >>),
      \* no VIRTUAL_ENV assignment
      File(<< <<"u", " ", "V", "\n">>, <<"P", "=", "x", "\n">> >>),
      \* VIRTUAL_ENV=/p/./v/ : same place once normalised
      File(<< <<" ", "V", "=", "/", "p", "/", ".", "/", "v", "/", "\n">> >>),
      \* VIRTUAL_ENV=v : relative to the working directory
      File(<< <<"V", "=", "v", "\n">> >>),
      \* VIRTUAL_ENV=/p /v : two shell tokens
      File(<< <<"V", "=", "/", "p", " ", "/", "v", "\n">> >>) }
Cwds == { project_root, <<"/">> }

\* exceptions
NoError == [type |-> "none", kind |-> "none", root |-> FALSE]
Error(type, kind, root) == [type |-> type, kind |-> kind, root |-> root]

\* check(): the scan of the activate file for the VIRTUAL_ENV assignment.
\* <<"found", value>> (text right of the first "="), or <<"else", <<>>>>
\* when the for loop runs to its else branch.
RECURSIVE check_scan(_)
check_scan(lines) ==
    IF lines = <<>>
    THEN << "else", <<>> >>
    ELSE LET parts == split1(strip(Head(lines)), "=") IN
         IF Len(parts) # 2
         THEN check_scan(Tail(lines))
         ELSE IF parts[1] = expected_name
              THEN << "found", parts[2] >>
              ELSE check_scan(Tail(lines))

\* check(): the required executables (an empty list in the source)
executables == <<>>
ExecOutcomes == {"ok", "nonzero", "ENOENT", "EACCES", "EIO"}

\* check(): the loop over the executables; run maps an executable to the
\* outcome of launching it
RECURSIVE check_executables(_, _)
check_executables(exes, run) ==
    IF exes = <<>>
    THEN << "none", "none" >>
    ELSE LET r == run[Head(exes)] IN
         IF r = "ok" THEN check_executables(Tail(exes), run)
         ELSE IF r = "nonzero" THEN << "CalledProcessError", "ToolInvocationFailed" >>
         ELSE IF r = "ENOENT" THEN << "ExitError", "ExecutableNotFound" >>
         ELSE IF r = "EACCES" THEN << "ExitError", "ExecutableNotRunnable" >>
         ELSE << "OSError", r >>

\* check(): <<type, kind>> of the exception raised, <<"none","none">> on success
check_result(file, cwd, run) ==
    IF ~file.exists
    THEN << "IOError", "activate" >>
    ELSE LET scan == check_scan(file.lines) IN
         IF scan[1] = "else"
         THEN << "Exception", "AssignmentNotFound" >>
         ELSE LET toks == shlex_split(scan[2]) IN
              IF toks[1] # "ok" \/ Len(toks[2]) # 1
              THEN << "ValueError", "unpack" >>
              ELSE IF clean_path(venv_path, cwd) # clean_path(toks[2][1], cwd)
                   THEN << "ExitError", "EnvironmentMoved" >>
                   ELSE check_executables(executables, run)

\* ---------------------------------------------------------------- dispatch
\* sys.platform values considered: linux, linux2, win32, darwin
linux == <<"l", "x">>
win32 == <<"w", "3">>
Platforms == { linux, linux \o <<"2">>, win32, <<"d">> }

\* a handler: the function called and the keywords bound by functools.partial
Handler(func, keywords) == [func |-> func, keywords |-> keywords]
Entry(name, f) == [name |-> name, f |-> f]

\* create(): the mapping d
d_create ==
    << Entry(linux, Handler("linux_create", {})),
       Entry(win32, Handler("windows_create", {})) >>

\* compile_dispatch(): the mapping d
d_compile ==
    << Entry(linux, Handler("common_compile",
                            {<<"requirements_platform", "linux">>})),
       Entry(win32, Handler("common_compile",
                            {<<"requirements_platform", "windows">>})) >>

\* ensure(): the mapping d
d_ensure ==
    << Entry(linux, Handler("common_ensure",
                            {<<"requirements_platform", "linux">>})),
       Entry(win32, Handler("common_ensure",
                            {<<"requirements_platform", "windows">>})) >>

\* dispatch() comparing the platform string for equality instead of by prefix
RECURSIVE dispatch_select_exact(_, _)
dispatch_select_exact(items, plat) ==
    IF items = <<>>
    THEN <<>>
    ELSE IF plat = Head(items).name
         THEN << Head(items).f >>
         ELSE dispatch_select_exact(Tail(items), plat)

\* dispatch(): the handlers the for loop calls, in order: the first entry
\* whose name the platform string starts with, then break
RECURSIVE dispatch_select(_, _)
dispatch_select(items, plat) ==
    IF items = <<>>
    THEN <<>>
    ELSE IF startswith(plat, Head(items).name)
         THEN << Head(items).f >>
         ELSE dispatch_select(Tail(items), plat)

\* keyword argument lookup with a default; values are strings
kw(kwargs, name, default) ==
    IF \E p \in kwargs : p[1] = name
    THEN (CHOOSE p \in kwargs : p[1] = name)[2]
    ELSE default

\* ------------------------------------------------------------------ state
VARIABLES
    platform,      \* sys.platform
    dotenv,        \* the file project_root/.env
    venv,          \* os.path.exists(venv_path)
    activate,      \* the file venv_common_bin/activate
    pip_src_dir,   \* whether the directory named by PIP_SRC exists
    environ,       \* os.environ of the running process
    cmd,           \* the parsed command line: func and cleaned arguments
    pc,            \* the function or statement about to run
    stack,         \* return addresses of the callers
    d,             \* dispatch's argument d
    kwargs,        \* keyword arguments of the call about to run
    loc,           \* local variables of the running functions
    env,           \* the environment snapshot handed to child processes
    in_paths,      \* common_compile: sources still to compile
    produced,      \* common_compile: output files written by this run
    raised,        \* the exception in flight, NoError when none
    caught,        \* how many times _entry_point's except clause ran
    stderr,        \* what the process wrote last to the error stream
    exit_code,     \* process exit status, -1 while running
    log,           \* external effects of this run, in order
    invoked,       \* handlers called by dispatch in this run
    venv_at_start, \* whether the root existed when the command started
    prev           \* summary of the previous run of the program

vars == << platform, dotenv, venv, activate, pip_src_dir, environ, cmd, pc,
           stack, d, kwargs, loc, env, in_paths, produced, raised, caught,
           stderr, exit_code, log, invoked, venv_at_start, prev >>

\* rmtree(path, retries=4)
retries == 4

loc0 ==
    [ python |-> <<>>, symlink |-> FALSE, requirements_platform |-> "none",
      only_pre |-> FALSE, quick |-> FALSE, existed |-> FALSE,
      ignore_missing |-> FALSE, remaining |-> retries - 1 ]

NoCommand == [func |-> "none", args |-> {}]
NoPrev == [create_tool_failed |-> FALSE]

\* the command lines main() accepts
Commands ==
    { [func |-> "print_help", args |-> {}],
      [func |-> "check", args |-> {}],
      [func |-> "create", args |-> {}],
      [func |-> "compile_dispatch", args |-> {}] }
    \cup { [func |-> "ensure", args |-> {<<"quick", q>>}] : q \in {"True", "False"} }
    \cup { [func |-> "rm", args |-> {<<"ignore_missing", i>>}] : i \in {"True", "False"} }

\* state of a process before main() runs
ProcessInit ==
    /\ environ = os_environ_base
    /\ cmd = NoCommand
    /\ pc = "idle"
    /\ stack = <<>>
    /\ d = <<>>
    /\ kwargs = {}
    /\ loc = loc0
    /\ env = {}
    /\ in_paths = <<>>
    /\ produced = {}
    /\ raised = NoError
    /\ caught = 0
    /\ stderr = "none"
    /\ exit_code = -1
    /\ log = <<>>
    /\ invoked = <<>>
    /\ venv_at_start = FALSE

Init ==
    /\ platform \in Platforms
    /\ dotenv \in DotEnvFiles
    /\ venv \in BOOLEAN
    /\ activate \in IF venv THEN ActivateFiles \cup {NoFile} ELSE {NoFile}
    /\ pip_src_dir \in BOOLEAN
    /\ prev = NoPrev
    /\ ProcessInit

\* ---------------------------------------------------------------- helpers
world == << platform, dotenv >>
fs == << venv, activate, pip_src_dir >>

\* return from the running function to its caller
Return ==
    /\ raised' = raised
    /\ IF stack = <<>>
       THEN pc' = "returned" /\ stack' = stack
       ELSE pc' = Head(stack) /\ stack' = Tail(stack)

\* fall through to the statement at label l of the same function
Goto(l) == pc' = l /\ stack' = stack /\ raised' = raised

\* call the function at label l, continuing at the labels rets afterwards
Call(l, rets) == pc' = l /\ stack' = rets \o stack /\ raised' = raised

\* raise: no caller below _entry_point has a handler, the stack unwinds
Raise(type, kind) ==
    /\ pc' = "raised"
    /\ stack' = <<>>
    /\ raised' = Error(type, kind, venv')

\* check_call / check_output exit statuses
ExitStatuses == {0, 1}

io == << caught, stderr, exit_code >>

\* --------------------------------------------------------------- front end
\* main(): parse the command line and call args.func(**cleaned)
main ==
    /\ pc = "idle"
    /\ \E c \in Commands, e \in Environs :
          /\ cmd' = c
          /\ environ' = e
          /\ kwargs' = c.args
          /\ Goto(c.func)
    /\ venv_at_start' = venv
    /\ UNCHANGED << world, fs, d, loc, env, in_paths, produced, io, log,
                    invoked, prev >>

\* parser.print_help, the default func
print_help ==
    /\ pc = "print_help"
    /\ log' = Append(log, "help")
    /\ Return
    /\ UNCHANGED << world, fs, environ, cmd, d, kwargs, loc, env, in_paths,
                    produced, io, invoked, venv_at_start, prev >>

\* create(only_pre=False)
create ==
    /\ pc = "create"
    /\ d' = d_create
    /\ kwargs' = {<<"only_pre", kw(kwargs, "only_pre", "False")>>}
    /\ Goto("dispatch")
    /\ UNCHANGED << world, fs, environ, cmd, loc, env, in_paths, produced, io,
                    log, invoked, venv_at_start, prev >>

\* compile_dispatch()
compile_dispatch ==
    /\ pc = "compile_dispatch"
    /\ d' = d_compile
    /\ kwargs' = {}
    /\ Goto("dispatch")
    /\ UNCHANGED << world, fs, environ, cmd, loc, env, in_paths, produced, io,
                    log, invoked, venv_at_start, prev >>

\* ensure(quick)
ensure ==
    /\ pc = "ensure"
    /\ d' = d_ensure
    /\ kwargs' = {<<"quick", kw(kwargs, "quick", "False")>>}
    /\ Goto("dispatch")
    /\ UNCHANGED << world, fs, environ, cmd, loc, env, in_paths, produced, io,
                    log, invoked, venv_at_start, prev >>

\* dispatch(d, *args, **kwargs)
dispatch ==
    /\ pc = "dispatch"
    /\ UNCHANGED << world, fs, environ, cmd, d, loc, env, in_paths, produced,
                    io, log, venv_at_start, prev >>
    /\ LET sel == dispatch_select(d, platform) IN
       /\ invoked' = invoked \o [i \in 1..Len(sel) |->
                                    [f |-> sel[i], kwargs |-> kwargs]]
       /\ IF sel = <<>>
          THEN /\ kwargs' = kwargs
               /\ Raise("ExitError", "PlatformUnsupported")
          ELSE /\ kwargs' = sel[1].keywords \cup kwargs
               /\ Goto(sel[1].func)

\* ---------------------------------------------------------------- creation
python3_7 == <<"p", "y", "3", ".", "7">>
PyOutputs == { <<"C", ":", "y", "\n">> }

\* linux_create(only_pre)
linux_create ==
    /\ pc = "linux_create"
    /\ loc' = [loc EXCEPT !.python = python3_7,
                          !.requirements_platform = "linux",
                          !.symlink = TRUE,
                          !.only_pre = (kw(kwargs, "only_pre", "False") = "True")]
    /\ Goto("common_create")
    /\ UNCHANGED << world, fs, environ, cmd, d, kwargs, env, in_paths, produced,
                    io, log, invoked, venv_at_start, prev >>

\* windows_create(only_pre): the py launcher is asked for the interpreter
windows_create ==
    /\ pc = "windows_create"
    /\ log' = Append(log, "py")
    /\ UNCHANGED << world, fs, environ, cmd, d, kwargs, env, in_paths, produced,
                    io, invoked, venv_at_start, prev >>
    /\ \E rc \in ExitStatuses, out \in PyOutputs :
          IF rc # 0
          THEN /\ loc' = loc
               /\ Raise("CalledProcessError", "ToolInvocationFailed")
          ELSE /\ loc' = [loc EXCEPT
                             !.python = strip(out),
                             !.requirements_platform = "windows",
                             !.symlink = FALSE,
                             !.only_pre = (kw(kwargs, "only_pre", "False") = "True")]
               /\ Goto("common_create")

\* os.makedirs(pip_src): what the call can do given whether the directory exists
makedirs_outcomes(exists) == IF exists THEN {"EEXIST"} ELSE {"ok", "EACCES"}

\* common_create(): the existence test, the environment snapshot, PIP_SRC
common_create ==
    /\ pc = "common_create"
    /\ UNCHANGED << world, venv, activate, environ, cmd, d, kwargs, loc,
                    in_paths, produced, io, log, invoked, venv_at_start, prev >>
    /\ IF venv
       THEN /\ UNCHANGED << env, pip_src_dir >>
            /\ Raise("ExitError", "AlreadyExists")
       ELSE LET r == read_dot_env(dotenv) IN
            IF r[1] # "ok"
            THEN /\ UNCHANGED << env, pip_src_dir >>
                 /\ Raise("IOError", "dot_env")
            ELSE LET e == update(environ, r[2]) IN
                 /\ env' = e
                 /\ IF get(e, PIP_SRC) = {}
                    THEN /\ pip_src_dir' = pip_src_dir
                         /\ Goto("venv_tool")
                    ELSE \E m \in makedirs_outcomes(pip_src_dir) :
                            /\ pip_src_dir' = (pip_src_dir \/ m = "ok")
                            /\ IF m \in {"ok", "EEXIST"}
                               THEN Goto("venv_tool")
                               ELSE Raise("OSError", m)

\* common_create(): python -m venv, then the symlink of venv_bin
venv_tool ==
    /\ pc = "venv_tool"
    /\ log' = Append(log, "venv")
    /\ UNCHANGED << world, pip_src_dir, environ, cmd, d, kwargs, loc, env,
                    in_paths, produced, io, invoked, venv_at_start, prev >>
    /\ \E rc \in ExitStatuses, content \in ActivateFiles \cup {NoFile} :
          IF rc = 0
          THEN /\ venv' = TRUE
               /\ activate' = content
               /\ Goto("pip_pre")
          ELSE \E left \in BOOLEAN :
                  /\ venv' = left
                  /\ activate' = IF left /\ ~loc.symlink THEN content ELSE NoFile
                  /\ Raise("CalledProcessError", "ToolInvocationFailed")

\* common_create(): pip install of the pre manifest, then only_pre
pip_pre ==
    /\ pc = "pip_pre"
    /\ log' = Append(log, "pip_pre")
    /\ UNCHANGED << world, fs, environ, cmd, d, kwargs, loc, env, in_paths,
                    produced, io, invoked, venv_at_start, prev >>
    /\ \E rc \in ExitStatuses :
          IF rc # 0
          THEN Raise("CalledProcessError", "ToolInvocationFailed")
          ELSE IF loc.only_pre
               THEN Return
               ELSE Goto("sync_requirements")

\* sync_requirements(): the snapshot, then sync_requirements_file (pip-sync)
sync_requirements ==
    /\ pc = "sync_requirements"
    /\ UNCHANGED << world, fs, environ, cmd, d, kwargs, loc, in_paths, produced,
                    io, invoked, venv_at_start, prev >>
    /\ LET r == read_dot_env(dotenv) IN
       IF r[1] # "ok"
       THEN /\ UNCHANGED << env, log >>
            /\ Raise("IOError", "dot_env")
       ELSE /\ env' = update(environ, r[2])
            /\ log' = Append(log, "pip_sync")
            /\ \E rc \in ExitStatuses :
                  IF rc # 0
                  THEN Raise("CalledProcessError", "ToolInvocationFailed")
                  ELSE Goto("sync_local")

\* sync_requirements(): pip install --no-deps of the local manifest
sync_local ==
    /\ pc = "sync_local"
    /\ log' = Append(log, "pip_local")
    /\ UNCHANGED << world, fs, environ, cmd, d, kwargs, loc, env, in_paths,
                    produced, io, invoked, venv_at_start, prev >>
    /\ \E rc \in ExitStatuses :
          IF rc # 0
          THEN Raise("CalledProcessError", "ToolInvocationFailed")
          ELSE Return

\* ------------------------------------------------------------- compilation
\* venv_existed()
venv_existed(root) == root

\* common_compile() calling create() with its default only_pre
compile_create_kwargs_default == {}

\* common_compile(): the keyword arguments of the create call
compile_create_kwargs == {<<"only_pre", "True">>}

\* common_compile(): create the bootstrap environment when there is none
common_compile ==
    /\ pc = "common_compile"
    /\ loc' = [loc EXCEPT !.requirements_platform =
                              kw(kwargs, "requirements_platform", "none")]
    /\ IF ~venv_existed(venv)
       THEN /\ kwargs' = compile_create_kwargs
            /\ Call("create", <<"glob">>)
       ELSE /\ kwargs' = kwargs
            /\ Goto("glob")
    /\ UNCHANGED << world, fs, environ, cmd, d, env, in_paths, produced, io,
                    log, invoked, venv_at_start, prev >>

\* common_compile(): in_paths, the *.in files of the requirements directory
glob ==
    /\ pc = "glob"
    /\ \E n \in 0..MaxInPaths : in_paths' = [i \in 1..n |-> i]
    /\ Goto("compile_loop")
    /\ UNCHANGED << world, fs, environ, cmd, d, kwargs, loc, env, produced, io,
                    log, invoked, venv_at_start, prev >>

\* '{}.{}.txt'.format(os.path.splitext(in_path)[0], requirements_platform)
out_path(in_path, requirements_platform) == << in_path, requirements_platform >>

\* common_compile(): one iteration of the loop over in_paths (pip-compile)
compile_loop ==
    /\ pc = "compile_loop"
    /\ UNCHANGED << world, fs, environ, cmd, d, kwargs, loc, env, io, invoked,
                    venv_at_start, prev >>
    /\ IF in_paths = <<>>
       THEN /\ UNCHANGED << in_paths, produced, log >>
            /\ Return
       ELSE /\ log' = Append(log, "pip_compile")
            /\ \E rc \in ExitStatuses :
                  IF rc # 0
                  THEN /\ UNCHANGED << in_paths, produced >>
                       /\ Raise("CalledProcessError", "ToolInvocationFailed")
                  ELSE /\ produced' = produced \cup
                              {out_path(Head(in_paths), loc.requirements_platform)}
                       /\ in_paths' = Tail(in_paths)
                       /\ Goto("compile_loop")

\* ------------------------------------------------------------------ ensure
\* common_ensure() synchronising an existing root whatever quick says
ensure_steps_ignore_quick(existed, quick) ==
    IF ~existed
    THEN << "create", "check", "ensure_report" >>
    ELSE << "sync_requirements", "check", "ensure_report" >>

\* common_ensure() checking only a root that was already there
ensure_steps_no_check_after_create(existed, quick) ==
    IF ~existed
    THEN << "create", "ensure_report" >>
    ELSE IF ~quick
         THEN << "sync_requirements", "check", "ensure_report" >>
         ELSE << "check", "ensure_report" >>

\* common_ensure(): the calls made for a root that existed or not, in order
ensure_steps(existed, quick) ==
    IF ~existed
    THEN << "create", "check", "ensure_report" >>
    ELSE IF ~quick
         THEN << "sync_requirements", "check", "ensure_report" >>
         ELSE << "check", "ensure_report" >>

\* common_ensure(quick, requirements_platform)
common_ensure ==
    /\ pc = "common_ensure"
    /\ LET existed == venv_existed(venv)
           quick == kw(kwargs, "quick", "False") = "True"
           steps == ensure_steps(existed, quick)
       IN /\ loc' = [loc EXCEPT !.existed = existed,
                                !.quick = quick,
                                !.requirements_platform =
                                    kw(kwargs, "requirements_platform", "none")]
          /\ kwargs' = {}
          /\ Call(Head(steps), Tail(steps))
    /\ UNCHANGED << world, fs, environ, cmd, d, env, in_paths, produced, io,
                    log, invoked, venv_at_start, prev >>

\* common_ensure(): the closing message
ensure_report ==
    /\ pc = "ensure_report"
    /\ log' = Append(log, IF loc.existed THEN "msg_present" ELSE "msg_created")
    /\ Return
    /\ UNCHANGED << world, fs, environ, cmd, d, kwargs, loc, env, in_paths,
                    produced, io, invoked, venv_at_start, prev >>

\* check()
check ==
    /\ pc = "check"
    /\ log' = Append(log, "check")
    /\ UNCHANGED << world, fs, environ, cmd, d, kwargs, loc, env, in_paths,
                    produced, io, invoked, venv_at_start, prev >>
    /\ \E cwd \in Cwds,
          run \in [{executables[i] : i \in DOMAIN executables} -> ExecOutcomes] :
          LET r == check_result(activate, cwd, run) IN
          IF r[1] = "none" THEN Return ELSE Raise(r[1], r[2])

\* ----------------------------------------------------------------- removal
\* shutil.rmtree(path, onerror=del_rw): success, or the errno of the OSError
\* that leaves it.  An absent root gives ENOENT (os.chmod in del_rw); inside
\* an existing tree del_rw can meet a permission error or a missing entry.
shutil_rmtree_outcomes(exists) ==
    IF exists THEN {"ok", "EACCES", "ENOENT"} ELSE {"ENOENT"}

\* rmtree() retrying a missing root like any other failure
rmtree_except_remaining_only(remaining, errno) ==
    IF remaining = 0 THEN "raise" ELSE "retry"

\* rmtree(): the except clause of one attempt
rmtree_except(remaining, errno) ==
    IF remaining = 0 \/ errno = "ENOENT" THEN "raise" ELSE "retry"

\* rm(): the except clause around rmtree
rm_except(errno, ignore_missing) ==
    IF errno # "ENOENT" THEN "raise"
    ELSE IF ~ignore_missing THEN "NotFound"
    ELSE "pass"

\* rm(ignore_missing): enter rmtree(venv_path), first value of the loop variable
rm ==
    /\ pc = "rm"
    /\ loc' = [loc EXCEPT
                  !.ignore_missing = (kw(kwargs, "ignore_missing", "False") = "True"),
                  !.remaining = retries - 1]
    /\ Goto("rmtree")
    /\ UNCHANGED << world, fs, environ, cmd, d, kwargs, env, in_paths, produced,
                    io, log, invoked, venv_at_start, prev >>

\* rmtree(): one attempt of the loop, with rm's handler when it raises
rmtree ==
    /\ pc = "rmtree"
    /\ log' = Append(log, "rmtree")
    /\ UNCHANGED << world, pip_src_dir, environ, cmd, d, kwargs, loc, env,
                    in_paths, produced, io, invoked, venv_at_start, prev >>
    /\ \E o \in shutil_rmtree_outcomes(venv) :
          IF o = "ok"
          THEN /\ venv' = FALSE
               /\ activate' = NoFile
               /\ Return
          ELSE /\ venv' = venv
               /\ activate' \in {activate, NoFile}
               /\ IF rmtree_except(loc.remaining, o) = "retry"
                  THEN Goto("rmtree_sleep")
                  ELSE LET h == rm_except(o, loc.ignore_missing) IN
                       IF h = "raise" THEN Raise("OSError", o)
                       ELSE IF h = "NotFound" THEN Raise("ExitError", "NotFound")
                       ELSE Return

\* rmtree(): the message and time.sleep(0.5) after a swallowed failure
rmtree_sleep ==
    /\ pc = "rmtree_sleep"
    /\ log' = Append(log, "sleep")
    /\ loc' = [loc EXCEPT !.remaining = loc.remaining - 1]
    /\ Goto("rmtree")
    /\ UNCHANGED << world, fs, environ, cmd, d, kwargs, env, in_paths, produced,
                    io, invoked, venv_at_start, prev >>

\* ------------------------------------------------------------- entry point
\* _entry_point(): main() returned, sys.exit(None)
entry_point_exit ==
    /\ pc = "returned"
    /\ exit_code' = 0
    /\ pc' = "exited"
    /\ UNCHANGED << world, fs, environ, cmd, stack, d, kwargs, loc, env,
                    in_paths, produced, raised, caught, stderr, log, invoked,
                    venv_at_start, prev >>

\* _entry_point(): an exception left main().  ExitError is caught and its
\* message written; anything else leaves the interpreter with a traceback.
entry_point_except ==
    /\ pc = "raised"
    /\ IF raised.type = "ExitError"
       THEN /\ caught' = caught + 1
            /\ stderr' = "message"
       ELSE /\ caught' = caught
            /\ stderr' = "traceback"
    /\ exit_code' = 1
    /\ pc' = "exited"
    /\ UNCHANGED << world, fs, environ, cmd, stack, d, kwargs, loc, env,
                    in_paths, produced, raised, log, invoked, venv_at_start,
                    prev >>

\* tools called by create: environment tool, pre install, sync, local install
CreateTools == {"venv", "pip_pre", "pip_sync", "pip_local"}
CreateHandlers == {"linux_create", "windows_create"}

\* this run failed because a tool called inside create returned non-zero
create_tool_failed ==
    /\ raised.kind = "ToolInvocationFailed"
    /\ log # <<>>
    /\ log[Len(log)] \in CreateTools
    /\ \E i \in DOMAIN invoked : invoked[i].f.func \in CreateHandlers

\* the process is gone; the next command line starts a new one
next_process ==
    /\ pc = "exited"
    /\ prev' = [create_tool_failed |-> create_tool_failed]
    /\ environ' = os_environ_base
    /\ cmd' = NoCommand
    /\ pc' = "idle"
    /\ stack' = <<>>
    /\ d' = <<>>
    /\ kwargs' = {}
    /\ loc' = loc0
    /\ env' = {}
    /\ in_paths' = <<>>
    /\ produced' = {}
    /\ raised' = NoError
    /\ caught' = 0
    /\ stderr' = "none"
    /\ exit_code' = -1
    /\ log' = <<>>
    /\ invoked' = <<>>
    /\ venv_at_start' = FALSE
    /\ UNCHANGED << world, fs >>

Next ==
    \/ main
    \/ print_help
    \/ create
    \/ compile_dispatch
    \/ ensure
    \/ dispatch
    \/ linux_create
    \/ windows_create
    \/ common_create
    \/ venv_tool
    \/ pip_pre
    \/ sync_requirements
    \/ sync_local
    \/ common_compile
    \/ glob
    \/ compile_loop
    \/ common_ensure
    \/ ensure_report
    \/ check
    \/ rm
    \/ rmtree
    \/ rmtree_sleep
    \/ entry_point_exit
    \/ entry_point_except
    \/ next_process

Spec == Init /\ [][Next]_vars

\* ------------------------------------------- the dispatcher on its own
\* dispatch applied to every small mapping and platform string
Alphabet == {"l", "w"}
Names == UNION { [1..k -> Alphabet] : k \in 0..MaxNameLen }
TestHandlers == { Handler("h1", {}), Handler("h2", {}) }
Mappings ==
    { m \in UNION { [1..k -> [name : Names, f : TestHandlers]] : k \in 0..MaxEntries } :
        \A i, j \in DOMAIN m : m[i].name = m[j].name => i = j }
TestKwargs == { {}, {<<"only_pre", "True">>} }

DispatchInit ==
    /\ platform \in Names
    /\ d \in Mappings
    /\ kwargs \in TestKwargs
    /\ cmd = [func |-> "dispatch", args |-> kwargs]
    /\ pc = "dispatch"
    /\ dotenv = NoFile
    /\ venv = FALSE
    /\ activate = NoFile
    /\ pip_src_dir = FALSE
    /\ prev = NoPrev
    /\ environ = os_environ_base
    /\ stack = <<>>
    /\ loc = loc0
    /\ env = {}
    /\ in_paths = <<>>
    /\ produced = {}
    /\ raised = NoError
    /\ caught = 0
    /\ stderr = "none"
    /\ exit_code = -1
    /\ log = <<>>
    /\ invoked = <<>>
    /\ venv_at_start = FALSE

DispatchNext == dispatch

DispatchSpec == DispatchInit /\ [][DispatchNext]_vars

\* ------------------------------------------------------------- properties
Done == pc \in {"returned", "raised", "exited"}
Count(ev) == Cardinality({i \in DOMAIN log : log[i] = ev})
Logged(evs) == \E i \in DOMAIN log : log[i] \in evs
LastLogged(ev) == log # <<>> /\ log[Len(log)] = ev
HandlerRan == invoked # <<>>

DomainErrors ==
    { "PlatformUnsupported", "AlreadyExists", "NotFound", "ToolInvocationFailed",
      "AssignmentNotFound", "EnvironmentMoved", "ExecutableNotFound",
      "ExecutableNotRunnable" }

\* C1: on linux and on win32, create invoked while the environment root
\* exists fails with AlreadyExists and no external tool (interpreter lookup,
\* environment tool, installer, synchronizer) ran before the failure.
C1_CreateOnExistingRoot ==
    (cmd.func = "create" /\ venv_at_start /\ HandlerRan /\ Done)
        => (raised.kind = "AlreadyExists" /\ log = <<>>)

\* C2: every domain error raised by a subcommand is caught exactly once at
\* the entry point, its message is written to the error stream and the
\* process ends with exit code 1.
C2_DomainErrorsCaughtAtTop ==
    (pc = "exited" /\ raised.kind \in DomainErrors)
        => (caught = 1 /\ stderr = "message" /\ exit_code = 1)

\* C3: ensure(quick=true) on an existing root invokes neither the
\* synchronizer (pip-sync, local install) nor the environment-creation tool
\* and still runs the validity check before it returns or raises.
C3_QuickEnsureOnlyChecks ==
    (cmd.func = "ensure" /\ kw(cmd.args, "quick", "False") = "True"
       /\ venv_at_start /\ HandlerRan)
        => /\ ~Logged({"py", "venv", "pip_pre", "pip_sync", "pip_local"})
           /\ (Done => Logged({"check"}))

C3_Witness ==
    /\ cmd.func = "ensure"
    /\ kw(cmd.args, "quick", "False") = "True"
    /\ venv_at_start
    /\ pc = "returned"
    /\ log = << "check", "msg_present" >>

\* C4: whenever ensure returns without error the root exists, the validity
\* check ran once, as the last step after every creation or synchronisation
\* step, and passes on the environment left behind; from an absent root the
\* environment tool, the pre install and the full sync all ran before it.
C4_EnsureEndsWithPassingCheck ==
    (cmd.func = "ensure" /\ pc \in {"returned", "exited"} /\ raised = NoError)
        => /\ venv
           /\ Len(log) >= 2
           /\ log[Len(log) - 1] = "check"
           /\ log[Len(log)] \in {"msg_present", "msg_created"}
           /\ Count("check") = 1
           /\ \E cwd \in Cwds : check_result(activate, cwd, <<>>)[1] = "none"
           /\ (~venv_at_start =>
                 /\ Len(log) >= 6
                 /\ SubSeq(log, Len(log) - 5, Len(log) - 2)
                        = << "venv", "pip_pre", "pip_sync", "pip_local" >>)
           /\ (venv_at_start /\ kw(cmd.args, "quick", "False") = "False" =>
                 log = << "pip_sync", "pip_local", "check", "msg_present" >>)

C4_Witness ==
    /\ cmd.func = "ensure"
    /\ kw(cmd.args, "quick", "False") = "False"
    /\ ~venv_at_start
    /\ pc = "returned"
    /\ raised = NoError
    /\ LastLogged("msg_created")

\* C5: remove on an absent root returns normally when ignoreMissing is true
\* and raises NotFound when it is false; either way there is one deletion
\* attempt, no retry, no delay, and the filesystem is left as it was.
C5_RemoveAbsentRoot ==
    (cmd.func = "rm" /\ ~venv_at_start)
        => /\ ~Logged({"sleep"})
           /\ Count("rmtree") <= 1
           /\ ~venv /\ ~activate.exists
           /\ (Done =>
                 /\ log = << "rmtree" >>
                 /\ (kw(cmd.args, "ignore_missing", "False") = "True"
                       => raised = NoError)
                 /\ (kw(cmd.args, "ignore_missing", "False") = "False"
                       => raised.type = "ExitError" /\ raised.kind = "NotFound"))

C5_Witness ==
    /\ cmd.func = "rm"
    /\ ~venv_at_start
    /\ kw(cmd.args, "ignore_missing", "False") = "False"
    /\ pc = "raised"
    /\ raised.kind = "NotFound"
    /\ log = << "rmtree" >>

\* C6: for every platform string and mapping, dispatch calls exactly one
\* handler, one whose prefix starts the platform string, with the keyword
\* arguments it was given, when some prefix matches; when none matches it
\* raises PlatformUnsupported and calls no handler.
C6_DispatchExactlyOne ==
    pc # "dispatch" =>
        LET matching == { i \in DOMAIN d : startswith(platform, d[i].name) } IN
        /\ (matching # {} =>
              /\ Len(invoked) = 1
              /\ invoked[1].f \in { d[i].f : i \in matching }
              /\ invoked[1].kwargs = cmd.args
              /\ kwargs = cmd.args \cup invoked[1].f.keywords
              /\ pc = invoked[1].f.func
              /\ raised = NoError)
        /\ (matching = {} =>
              /\ invoked = <<>>
              /\ pc = "raised"
              /\ raised.type = "ExitError"
              /\ raised.kind = "PlatformUnsupported")

C6_Witness ==
    /\ cmd.func = "dispatch"
    /\ pc = "h2"
    /\ Len(d) = 2
    /\ ~startswith(platform, d[1].name)
    /\ d[2].name # platform
    /\ Len(invoked) = 1
    /\ cmd.args # {}

\* C7: the override file is optional: with no .env present create and
\* syncRequirements take the process environment as the snapshot and go on
\* to their tool invocations; with the file present the snapshot is the
\* process environment merged with the file's pairs.
C7_OverrideFileOptional ==
    /\ (~dotenv.exists => ~(raised.type = "IOError" /\ raised.kind = "dot_env"))
    /\ (pc \in {"venv_tool", "sync_local"} =>
          env = IF dotenv.exists
                THEN update(environ, read_dot_env_lines(dotenv.lines, {}))
                ELSE environ)

\* C8: a non-zero tool exit inside create raises ToolInvocationFailed at
\* once, nothing runs after the failing tool, the root is left as it was at
\* the failure, and so a following create on a root left behind fails with
\* AlreadyExists.
C8_FailedCreateLeavesRoot ==
    /\ ((pc \in {"raised", "exited"} /\ create_tool_failed) =>
          /\ raised.type = "CalledProcessError"
          /\ venv = raised.root)
    /\ ((prev.create_tool_failed /\ venv_at_start /\ cmd.func = "create"
           /\ HandlerRan /\ Done)
          => raised.kind = "AlreadyExists")

\* C9: removal of an existing root makes at most 4 attempts, exactly one
\* delay before every attempt but the first, none after a success or after
\* the last failure, stops at the first success, and when all 4 attempts
\* fail the OS error of the last one reaches the caller unchanged.
C9_RemoveExistingRoot ==
    (cmd.func = "rm" /\ venv_at_start)
        => /\ Count("rmtree") <= retries
           /\ \A i \in DOMAIN log :
                 (log[i] = "rmtree" /\ i > 1) =>
                     (log[i - 1] = "sleep" /\ i > 2 /\ log[i - 2] = "rmtree")
           /\ (Done => LastLogged("rmtree"))
           /\ (~venv => Done /\ raised = NoError)
           /\ ((Done /\ Count("rmtree") = retries /\ venv)
                 => (raised.type = "OSError" /\ caught = 0))

\* C10: compile never runs full synchronisation; from an absent root the
\* environment tool and the pre install succeed before the first compiler
\* run; on an existing root no creation step runs; the first failing
\* compiler run ends the batch and leaves the outputs written so far.
C10_CompileBootstrapOnly ==
    cmd.func = "compile_dispatch"
        => LET failed == /\ pc \in {"raised", "exited"}
                         /\ raised.kind = "ToolInvocationFailed"
                         /\ LastLogged("pip_compile")
           IN
           /\ ~Logged({"pip_sync", "pip_local"})
           /\ (venv_at_start => ~Logged({"py", "venv", "pip_pre"}))
           /\ ((~venv_at_start /\ Logged({"pip_compile"})) =>
                 LET k == CHOOSE i \in DOMAIN log :
                             /\ log[i] = "pip_compile"
                             /\ \A j \in 1..(i - 1) : log[j] # "pip_compile"
                 IN /\ k >= 3
                    /\ log[k - 2] = "venv"
                    /\ log[k - 1] = "pip_pre"
                    /\ venv)
           /\ Count("pip_compile")
                 = Cardinality(produced) + (IF failed THEN 1 ELSE 0)
           /\ (failed => in_paths # <<>>)
           /\ \A o \in produced : \A i \in DOMAIN in_paths : o[1] # in_paths[i]

C10_Witness ==
    /\ cmd.func = "compile_dispatch"
    /\ ~venv_at_start
    /\ pc = "raised"
    /\ raised.kind = "ToolInvocationFailed"
    /\ Count("pip_compile") = 2
    /\ Cardinality(produced) = 1
    /\ Len(in_paths) = 1

====
